---- MODULE Spec2Model ----
(***************************************************************************)
(* Model of crates/rust-project-goals-cli/src/rfc.rs: the reconciliation   *)
(* of goal documents with tracking issues (generate_issues,                *)
(* initialize_labels, initialize_issues, GithubAction::execute).           *)
(*                                                                         *)
(* Strings are modelled as sequences of tokens (each token a TLA+ string), *)
(* so that concatenation and `contains` are computed, not assumed.         *)
(***************************************************************************)
EXTENDS Integers, Sequences, FiniteSets, TLC

(***************************************************************************)
(* Bounds                                                                  *)
(***************************************************************************)
\* comment counters of the tracker saturate at this value
MaxComments == 2

(***************************************************************************)
(* Orders.  Rust's derived Ord compares strings bytewise; StrOrder lists   *)
(* every string of the model in that order.                                *)
(***************************************************************************)
StrOrder ==
  << "![Team][])", "## Summary", "## Tasks and status", "###", "(", ")",
     "* [ ]", "* [x]", "---", "2024h2", "2025h1", "5319E7", "</details>",
     "<details>", "@bob", "@carol", "@ghost", "C-tracking-issue",
     "CONTINUING_GOAL_PREFIX", "Do thing", "Flagship Goal", "Goal X",
     "Goal Y", "LOCK_TEXT", "Note: we have updated the body", "Ship it",
     "Stabilize", "T-compiler",
     "[2024h2/d1](https://rust-lang.github.io/rust-project-goals/2024h2/d1.html)",
     "[2024h2/d2](https://rust-lang.github.io/rust-project-goals/2024h2/d2.html)",
     "[2025h1/d1](https://rust-lang.github.io/rust-project-goals/2025h1/d1.html)",
     "[2025h1/d2](https://rust-lang.github.io/rust-project-goals/2025h1/d2.html)",
     "[Team]: https://img.shields.io/badge/Team%20ask-red", "[compiler]",
     "alice", "bfd4f2", "bob", "carol", "compiler", "d1", "d2", "f5f1fd", "ffffff",
     "manual text", "summary of d1", "summary of d2", "| Goal document |",
     "| Metadata |", "| Point of contact |", "| Team(s) |" >>

StrRankMap ==
  [s \in {StrOrder[i] : i \in 1..Len(StrOrder)} |->
     CHOOSE i \in 1..Len(StrOrder) : StrOrder[i] = s]

StrRank(s) == StrRankMap[s]

\* lexicographic order on sequences of naturals
RECURSIVE SeqLess(_, _)
SeqLess(k1, k2) ==
  IF k2 = <<>> THEN FALSE
  ELSE IF k1 = <<>> THEN TRUE
  ELSE IF Head(k1) # Head(k2) THEN Head(k1) < Head(k2)
  ELSE SeqLess(Tail(k1), Tail(k2))

\* a sequence of strings as a key; the trailing 0 ends the field
StrSeqKey(q) == [i \in 1..Len(q) |-> StrRank(q[i])] \o <<0>>


\* a BTreeSet<String> iterates in ascending order
RECURSIVE SetToSeq(_)
SetToSeq(S) ==
  IF S = {} THEN <<>>
  ELSE LET m == CHOOSE x \in S : \A y \in S : StrRank(x) <= StrRank(y)
       IN <<m>> \o SetToSeq(S \ {m})

StrSetKey(S) == StrSeqKey(SetToSeq(S))

\* str::contains on token sequences
Contains(hay, needle) ==
  \E i \in 0..(Len(hay) - Len(needle)) :
     \A j \in 1..Len(needle) : hay[i + j] = needle[j]

(***************************************************************************)
(* The goal documents.  Title, owners and declared tracking issue vary     *)
(* (the state variable docs); the rest of a document is fixed per file.    *)
(***************************************************************************)
Docs == {"d1", "d2"}
DocSeq == <<"d1", "d2">>          \* the order goals_in_dir supplies them in

Timeframe == "2025h1"
Titles == {"Goal X", "Goal Y"}
DocOwners == {"@bob", "@carol", "@ghost"}   \* @ghost is in no person directory
NoTracking == 0                    \* metadata.tracking_issue = None

\* the person directory: username -> github handle, "" when unknown
get_person_data(u) ==
  CASE u = "@bob" -> "bob"
    [] u = "@carol" -> "carol"
    [] OTHER -> ""

\* teams named by the document's team asks
DocTeams(d) == IF d = "d1" THEN {"compiler"} ELSE {}
DocFlagship(d) == d = "d2"
DocSummary(d) == IF d = "d1" THEN "summary of d1" ELSE "summary of d2"
gh_label(team) == "T-compiler"
name_and_link(team) == "[compiler]"

\* goal plans: subgoal heading ("" for none) and plan items
DocPlans(d) ==
  IF d = "d1"
  THEN << [subgoal |-> "",
           plan_items |-> << [complete |-> FALSE, text |-> "Do thing",
                              asks |-> {}, usernames |-> <<>>],
                             [complete |-> TRUE, text |-> "Stabilize",
                              asks |-> {"compiler"}, usernames |-> <<>>] >>] >>
  ELSE << [subgoal |-> "Ship it",
           plan_items |-> << [complete |-> FALSE, text |-> "Do thing",
                              asks |-> {}, usernames |-> <<"@bob">>] >>] >>

RECURSIVE Flatten(_)
Flatten(qq) == IF qq = <<>> THEN <<>> ELSE Head(qq) \o Flatten(Tail(qq))

item_line(it) ==
  << IF it.complete THEN "* [x]" ELSE "* [ ]", it.text >>
  \o (IF it.asks # {}
      THEN <<"(">> \o [i \in 1..Cardinality(it.asks) |->
                         name_and_link(SetToSeq(it.asks)[i])] \o <<"![Team][])">>
      ELSE IF it.usernames # <<>>
      THEN <<"(">> \o it.usernames \o <<")">>
      ELSE <<>>)

task_items(goal_plan) ==
  (IF goal_plan.subgoal # "" THEN <<"###", goal_plan.subgoal>> ELSE <<>>)
  \o Flatten([i \in 1..Len(goal_plan.plan_items) |->
                item_line(goal_plan.plan_items[i])])

goal_document_link(timeframe, d) ==
  CASE timeframe = "2025h1" /\ d = "d1" ->
         "[2025h1/d1](https://rust-lang.github.io/rust-project-goals/2025h1/d1.html)"
    [] timeframe = "2025h1" /\ d = "d2" ->
         "[2025h1/d2](https://rust-lang.github.io/rust-project-goals/2025h1/d2.html)"
    [] timeframe = "2024h2" /\ d = "d1" ->
         "[2024h2/d1](https://rust-lang.github.io/rust-project-goals/2024h2/d1.html)"
    [] OTHER ->
         "[2024h2/d2](https://rust-lang.github.io/rust-project-goals/2024h2/d2.html)"

\* doc is the document record [id, title, owners, tracking, accepted]
issue_text(timeframe, doc) ==
  <<"| Metadata |", "| Point of contact |">> \o SetToSeq(doc.owners)
  \o <<"| Team(s) |">>
  \o [i \in 1..Cardinality(DocTeams(doc.id)) |->
        name_and_link(SetToSeq(DocTeams(doc.id))[i])]
  \o <<"| Goal document |", goal_document_link(timeframe, doc.id)>>
  \o <<"## Summary", DocSummary(doc.id), "## Tasks and status">>
  \o Flatten([i \in 1..Len(DocPlans(doc.id)) |-> task_items(DocPlans(doc.id)[i])])
  \o <<"[Team]: https://img.shields.io/badge/Team%20ask-red">>

\* the desired issue of a document (GithubIssue)
issue(timeframe, doc) ==
  [ title |-> doc.title,
    assignees |-> {get_person_data(u) : u \in doc.owners} \ {""},
    body |-> issue_text(timeframe, doc),
    labels |-> <<"C-tracking-issue">>
               \o (IF DocFlagship(doc.id) THEN <<"Flagship Goal">> ELSE <<>>)
               \o [i \in 1..Cardinality(DocTeams(doc.id)) |->
                     gh_label(SetToSeq(DocTeams(doc.id))[i])],
    tracking_issue |-> doc.tracking,
    goal_document |-> doc.id ]

teams_with_asks(goal_documents) ==
  UNION {DocTeams(goal_documents[i].id) : i \in DOMAIN goal_documents}

(***************************************************************************)
(* GithubAction: one record shape for the nine variants.                   *)
(***************************************************************************)
NoLabel == [name |-> "", color |-> ""]
NoIssue == [title |-> "", assignees |-> {}, body |-> <<>>, labels |-> <<>>,
            tracking_issue |-> 0, goal_document |-> ""]
Blank == [kind |-> "", number |-> 0, text |-> "", body |-> <<>>,
          remove_owners |-> {}, add_owners |-> {}, label |-> NoLabel,
          issue |-> NoIssue, goal_document |-> ""]

CreateLabel(label) == [Blank EXCEPT !.kind = "CreateLabel", !.label = label]
CreateIssue(iss) == [Blank EXCEPT !.kind = "CreateIssue", !.issue = iss]
ChangeTitle(n, title) ==
  [Blank EXCEPT !.kind = "ChangeTitle", !.number = n, !.text = title]
ChangeMilestone(n, milestone) ==
  [Blank EXCEPT !.kind = "ChangeMilestone", !.number = n, !.text = milestone]
Comment(n, body) == [Blank EXCEPT !.kind = "Comment", !.number = n, !.body = body]
UpdateIssueBody(n, body) ==
  [Blank EXCEPT !.kind = "UpdateIssueBody", !.number = n, !.body = body]
SyncAssignees(n, remove, add) ==
  [Blank EXCEPT !.kind = "SyncAssignees", !.number = n,
                !.remove_owners = remove, !.add_owners = add]
LockIssue(n) == [Blank EXCEPT !.kind = "LockIssue", !.number = n]
LinkToTrackingIssue(d, n) ==
  [Blank EXCEPT !.kind = "LinkToTrackingIssue", !.goal_document = d, !.number = n]

\* the comment bodies (CONTINUING_GOAL_PREFIX, LOCK_TEXT are imported constants)
ContinuationBody(timeframe) == <<"CONTINUING_GOAL_PREFIX", timeframe>>
LockBody == <<"LOCK_TEXT">>

\* derive(Ord) on the enum
VariantRank_lock_before_comment(kind) ==
  CASE kind = "CreateLabel" -> 1
    [] kind = "CreateIssue" -> 2
    [] kind = "ChangeTitle" -> 3
    [] kind = "ChangeMilestone" -> 4
    [] kind = "LockIssue" -> 5
    [] kind = "UpdateIssueBody" -> 6
    [] kind = "SyncAssignees" -> 7
    [] kind = "Comment" -> 8
    [] OTHER -> 9

\* derive(Ord) on the enum: declaration order of the variants first
VariantRank(kind) ==
  CASE kind = "CreateLabel" -> 1
    [] kind = "CreateIssue" -> 2
    [] kind = "ChangeTitle" -> 3
    [] kind = "ChangeMilestone" -> 4
    [] kind = "Comment" -> 5
    [] kind = "UpdateIssueBody" -> 6
    [] kind = "SyncAssignees" -> 7
    [] kind = "LockIssue" -> 8
    [] OTHER -> 9

\* derive(Ord) on GithubIssue: fields in declaration order
IssueKey(iss) ==
  <<StrRank(iss.title)>> \o StrSetKey(iss.assignees) \o StrSeqKey(iss.body)
  \o StrSeqKey(iss.labels) \o <<iss.tracking_issue, StrRank(iss.goal_document)>>

\* ... then the fields of the variant in declaration order
ActionKey(a) ==
  <<VariantRank(a.kind)>> \o
  CASE a.kind = "CreateLabel" -> <<StrRank(a.label.name), StrRank(a.label.color)>>
    [] a.kind = "CreateIssue" -> IssueKey(a.issue)
    [] a.kind \in {"ChangeTitle", "ChangeMilestone"} -> <<a.number, StrRank(a.text)>>
    [] a.kind \in {"Comment", "UpdateIssueBody"} -> <<a.number>> \o StrSeqKey(a.body)
    [] a.kind = "SyncAssignees" ->
         <<a.number>> \o StrSetKey(a.remove_owners) \o StrSetKey(a.add_owners)
    [] a.kind = "LockIssue" -> <<a.number>>
    [] OTHER -> <<StrRank(a.goal_document), a.number>>

Range(q) == {q[i] : i \in 1..Len(q)}

\* iteration of a BTreeSet<GithubAction>: ascending, duplicates collapsed
RECURSIVE SortByKey(_, _)
SortByKey(S, K) ==
  IF S = {} THEN <<>>
  ELSE LET m == CHOOSE x \in S : \A y \in S \ {x} : SeqLess(K[x], K[y])
       IN <<m>> \o SortByKey(S \ {m}, K)

SortActions(S) == SortByKey(S, [a \in S |-> ActionKey(a)])

\* iteration of a BTreeSet<GithubIssue>
SortIssues(S) == SortByKey(S, [x \in S |-> IssueKey(x)])

(***************************************************************************)
(* State                                                                   *)
(***************************************************************************)
VARIABLES
  docs,       \* goal documents on disk: id -> [id, title, owners, tracking, accepted]
  labels,     \* tracker: the repository's labels, records [name, color]
  issues,     \* tracker: number -> [title, assignees, milestone, body, locked]
  comments,   \* tracker: number -> [lock, cont], comments posted (saturating)
  commit,     \* the --commit flag
  pc,         \* "loop", "exec", "ok" (return Ok) or "failed" (return Err)
  queue,      \* actions of the current batch still to execute
  success,    \* the success counter of the current batch
  log         \* the current batch so far: [act, ok, created]

vars == <<docs, labels, issues, comments, commit, pc, queue, success, log>>

(***************************************************************************)
(* The tracker interface (gh::issues, gh::labels).                         *)
(***************************************************************************)
\* GhLabel equality, as BTreeSet::remove uses it
GhLabelEq(l1, l2) == l1.name = l2.name

\* list_issues_in_milestone: the numbers of the issues of the milestone
MilestoneIssues(iss, timeframe) ==
  {n \in DOMAIN iss : iss[n].milestone = timeframe}

\* the orders the tracker may list a set of issues in
Listings(S) ==
  {q \in [1..Cardinality(S) -> S] : \A i, j \in DOMAIN q : i # j => q[i] # q[j]}

FetchError == -1
NoMatch == 0
\* fetch_issue: the issue of that number, an error when there is none
fetch_issue(iss, n) == IF n \in DOMAIN iss THEN n ELSE FetchError

(***************************************************************************)
(* initialize_labels                                                       *)
(***************************************************************************)
TEAM_LABEL_COLOR == "bfd4f2"

DesiredLabels(teams) ==
  {[name |-> gh_label(t), color |-> TEAM_LABEL_COLOR] : t \in teams}
  \cup {[name |-> "C-tracking-issue", color |-> "f5f1fd"],
        [name |-> "Flagship Goal", color |-> "5319E7"]}

initialize_labels_exact(existing, teams) ==
  {CreateLabel(l) : l \in DesiredLabels(teams) \ existing}

initialize_labels(existing, teams) ==
  {CreateLabel(l) : l \in {d \in DesiredLabels(teams) :
                             ~ \E e \in existing : GhLabelEq(d, e)}}

(***************************************************************************)
(* initialize_issues                                                       *)
(***************************************************************************)
\* lines 321-329 with the first listed issue passed over
FindByTitle_skips_first(iss, listing, title) ==
  IF \E i \in DOMAIN listing : i > 1 /\ iss[listing[i]].title = title
  THEN listing[CHOOSE i \in DOMAIN listing :
                 /\ i > 1
                 /\ iss[listing[i]].title = title
                 /\ \A j \in 2..(i - 1) : iss[listing[j]].title # title]
  ELSE NoMatch

\* first element of the listing satisfying a title, NoMatch when none
FindByTitle(iss, listing, title) ==
  IF \E i \in DOMAIN listing : iss[listing[i]].title = title
  THEN listing[CHOOSE i \in DOMAIN listing :
                 /\ iss[listing[i]].title = title
                 /\ \A j \in 1..(i - 1) : iss[listing[j]].title # title]
  ELSE NoMatch

\* lines 302-329: the existing issue a desired issue is matched to
existing_issue_title_first(iss, listing, desired) ==
  IF FindByTitle(iss, listing, desired.title) # NoMatch
  THEN FindByTitle(iss, listing, desired.title)
  ELSE IF desired.tracking_issue # NoTracking
  THEN fetch_issue(iss, desired.tracking_issue)
  ELSE NoMatch

existing_issue_no_title_search(iss, listing, desired) ==
  IF desired.tracking_issue # NoTracking
  THEN IF \E i \in DOMAIN listing : listing[i] = desired.tracking_issue
       THEN desired.tracking_issue
       ELSE fetch_issue(iss, desired.tracking_issue)
  ELSE NoMatch

existing_issue_missing_is_new(iss, listing, desired) ==
  IF desired.tracking_issue # NoTracking
  THEN IF \E i \in DOMAIN listing : listing[i] = desired.tracking_issue
       THEN desired.tracking_issue
       ELSE IF fetch_issue(iss, desired.tracking_issue) = FetchError
       THEN NoMatch
       ELSE fetch_issue(iss, desired.tracking_issue)
  ELSE FindByTitle(iss, listing, desired.title)

existing_issue(iss, listing, desired) ==
  IF desired.tracking_issue # NoTracking
  THEN IF \E i \in DOMAIN listing : listing[i] = desired.tracking_issue
       THEN desired.tracking_issue
       ELSE fetch_issue(iss, desired.tracking_issue)
  ELSE FindByTitle(iss, listing, desired.title)

\* lines 333-347
assignee_actions_add_only(ex, n, desired) ==
  IF ex.assignees # desired.assignees
  THEN <<SyncAssignees(n, {}, desired.assignees \ ex.assignees)>>
  ELSE <<>>

assignee_actions(ex, n, desired) ==
  IF ex.assignees # desired.assignees
  THEN <<SyncAssignees(n, ex.assignees \ desired.assignees,
                          desired.assignees \ ex.assignees)>>
  ELSE <<>>

\* lines 356-375
coupled_actions_no_comment(ex, n, timeframe) ==
  (IF ex.milestone # timeframe THEN <<ChangeMilestone(n, timeframe)>> ELSE <<>>)
  \o (IF ~ex.locked THEN <<LockIssue(n), Comment(n, LockBody)>> ELSE <<>>)

coupled_actions_lock_always(ex, n, timeframe) ==
  (IF ex.milestone # timeframe
   THEN <<ChangeMilestone(n, timeframe), Comment(n, ContinuationBody(timeframe))>>
   ELSE <<>>)
  \o <<LockIssue(n), Comment(n, LockBody)>>

coupled_actions(ex, n, timeframe) ==
  (IF ex.milestone # timeframe
   THEN <<ChangeMilestone(n, timeframe), Comment(n, ContinuationBody(timeframe))>>
   ELSE <<>>)
  \o (IF ~ex.locked THEN <<LockIssue(n), Comment(n, LockBody)>> ELSE <<>>)

\* lines 382-388
updated_body_discarding(timeframe, desired_body, existing_body) == desired_body

updated_body_archive_only(timeframe, desired_body, existing_body) ==
  <<"---", "Note: we have updated the body", timeframe, "<details>">>
  \o existing_body \o <<"</details>">>

updated_body(timeframe, desired_body, existing_body) ==
  desired_body \o <<"---", "Note: we have updated the body", timeframe, "<details>">>
  \o existing_body \o <<"</details>">>

\* lines 377-393
body_actions(ex, n, timeframe, desired) ==
  IF ~Contains(ex.body, <<goal_document_link(timeframe, desired.goal_document)>>)
  THEN <<UpdateIssueBody(n, updated_body(timeframe, desired.body, ex.body))>>
  ELSE <<>>

\* lines 331-409
issue_actions_create_unassigned(iss, n, timeframe, desired) ==
  IF n = NoMatch
  THEN <<CreateIssue([desired EXCEPT !.assignees = {}])>>
  ELSE assignee_actions(iss[n], n, desired)
       \o (IF iss[n].title # desired.title
           THEN <<ChangeTitle(n, desired.title)>> ELSE <<>>)
       \o coupled_actions(iss[n], n, timeframe)
       \o body_actions(iss[n], n, timeframe, desired)
       \o (IF desired.tracking_issue # n
           THEN <<LinkToTrackingIssue(desired.goal_document, n)>> ELSE <<>>)

\* lines 331-409: the actions inserted for one desired issue matched to n
issue_actions(iss, n, timeframe, desired) ==
  IF n = NoMatch
  THEN <<CreateIssue(desired)>>
  ELSE assignee_actions(iss[n], n, desired)
       \o (IF iss[n].title # desired.title
           THEN <<ChangeTitle(n, desired.title)>> ELSE <<>>)
       \o coupled_actions(iss[n], n, timeframe)
       \o body_actions(iss[n], n, timeframe, desired)
       \o (IF desired.tracking_issue # n
           THEN <<LinkToTrackingIssue(desired.goal_document, n)>> ELSE <<>>)

\* the actions of one document, as a set
DocActions(dcs, iss, listing, d) ==
  LET desired == issue(Timeframe, dcs[d])
      n == existing_issue(iss, listing, desired)
  IN IF n = FetchError THEN {} ELSE Range(issue_actions(iss, n, Timeframe, desired))

\* goal_documents: sequence of document records, in the order supplied.
\* Returns [ok, actions]: ok = FALSE is the Err of a failed point-fetch.
initialize_issues_vec(iss, listing, timeframe, goal_documents) ==
  LET desired_issues == [i \in DOMAIN goal_documents |->
                           issue(timeframe, goal_documents[i])]
      match(i) == existing_issue(iss, listing, desired_issues[i])
  IN [ok |-> \A i \in DOMAIN desired_issues : match(i) # FetchError,
      actions |-> Flatten([i \in DOMAIN desired_issues |->
                             IF match(i) = FetchError THEN <<>>
                             ELSE issue_actions(iss, match(i), timeframe,
                                                desired_issues[i])])]

initialize_issues(iss, listing, timeframe, goal_documents) ==
  LET desired_issues == SortIssues({issue(timeframe, goal_documents[i]) :
                                      i \in DOMAIN goal_documents})
      match(i) == existing_issue(iss, listing, desired_issues[i])
  IN [ok |-> \A i \in DOMAIN desired_issues : match(i) # FetchError,
      actions |-> SortActions(UNION {
                     IF match(i) = FetchError THEN {}
                     ELSE Range(issue_actions(iss, match(i), timeframe,
                                              desired_issues[i])) :
                     i \in DOMAIN desired_issues})]

(***************************************************************************)
(* GithubAction::execute, on success.  st is [docs, labels, issues,        *)
(* comments]; the result is the state after the tracker (or, for           *)
(* LinkToTrackingIssue, the document) took the action.                     *)
(***************************************************************************)
NextNumber(iss) ==
  IF DOMAIN iss = {} THEN 1
  ELSE 1 + CHOOSE n \in DOMAIN iss : \A m \in DOMAIN iss : m <= n

Bump(k) == IF k < MaxComments THEN k + 1 ELSE MaxComments

execute(a, st, timeframe) ==
  CASE a.kind = "CreateLabel" ->
         [st EXCEPT !.labels = @ \cup {a.label}]
    [] a.kind = "CreateIssue" ->
         \* "the issue is not locked, but we will reloop around later"
         [st EXCEPT
            !.issues = @ @@ (NextNumber(st.issues) :>
                 [title |-> a.issue.title, assignees |-> a.issue.assignees,
                  milestone |-> timeframe, body |-> a.issue.body,
                  locked |-> FALSE]),
            !.comments = @ @@ (NextNumber(st.issues) :> [lock |-> 0, cont |-> 0])]
    [] a.kind = "ChangeMilestone" ->
         [st EXCEPT !.issues[a.number].milestone = a.text]
    [] a.kind = "ChangeTitle" ->
         [st EXCEPT !.issues[a.number].title = a.text]
    [] a.kind = "Comment" ->
         IF a.body = LockBody
         THEN [st EXCEPT !.comments[a.number].lock = Bump(@)]
         ELSE [st EXCEPT !.comments[a.number].cont = Bump(@)]
    [] a.kind = "UpdateIssueBody" ->
         [st EXCEPT !.issues[a.number].body = a.body]
    [] a.kind = "SyncAssignees" ->
         [st EXCEPT !.issues[a.number].assignees =
                       (@ \ a.remove_owners) \cup a.add_owners]
    [] a.kind = "LockIssue" ->
         [st EXCEPT !.issues[a.number].locked = TRUE]
    [] OTHER ->
         [st EXCEPT !.docs[a.goal_document].tracking = a.number]

(***************************************************************************)
(* generate_issues: the convergence loop                                   *)
(***************************************************************************)
State == [docs |-> docs, labels |-> labels, issues |-> issues, comments |-> comments]

\* lines 127-128: the documents read from disk, the not-accepted ones dropped
RECURSIVE Retain(_, _)
Retain(q, dcs) ==
  IF q = <<>> THEN <<>>
  ELSE (IF dcs[Head(q)].accepted THEN <<dcs[Head(q)]>> ELSE <<>>)
       \o Retain(Tail(q), dcs)

GoalDocuments(dcs) == Retain(DocSeq, dcs)

\* lines 130-132: the action set of a pass, in iteration order
pass_actions(st, listing) ==
  LET li == initialize_issues(st.issues, listing, Timeframe, GoalDocuments(st.docs))
  IN [ok |-> li.ok,
      actions |-> SortActions(initialize_labels(st.labels, teams_with_asks(GoalDocuments(st.docs)))
                              \cup Range(li.actions))]

\* variants of the pass: the exit taken on a failed fetch, whether a failed
\* fetch still hands its actions to the executor, whether dry-run executes
PassVariant(errPc, execOnError, execInDryRun) ==
  /\ pc = "loop"
  /\ \E listing \in Listings(MilestoneIssues(issues, Timeframe)) :
       LET r == pass_actions(State, listing)
       IN IF ~r.ok /\ ~(execOnError /\ r.actions # <<>>)
          THEN /\ pc' = errPc
               /\ UNCHANGED <<queue, success, log>>
          ELSE IF r.actions = <<>>
          THEN /\ pc' = "ok"
               /\ UNCHANGED <<queue, success, log>>
          ELSE IF commit \/ execInDryRun
          THEN /\ pc' = "exec"
               /\ queue' = r.actions
               /\ success' = 0
               /\ log' = <<>>
          ELSE /\ pc' = "ok"
               /\ UNCHANGED <<queue, success, log>>
  /\ UNCHANGED <<docs, labels, issues, comments, commit>>

Pass_always_commit == PassVariant("failed", FALSE, TRUE)
Pass_error_is_ok == PassVariant("ok", FALSE, FALSE)
Pass_ignore_fetch_error == PassVariant("failed", TRUE, FALSE)

\* lines 125-136 and 138-145 / 171-178: one pass up to the batch
Pass ==
  /\ pc = "loop"
  /\ \E listing \in Listings(MilestoneIssues(issues, Timeframe)) :
       LET r == pass_actions(State, listing)
       IN IF ~r.ok
          THEN /\ pc' = "failed"
               /\ UNCHANGED <<queue, success, log>>
          ELSE IF r.actions = <<>>
          THEN /\ pc' = "ok"
               /\ UNCHANGED <<queue, success, log>>
          ELSE IF commit
          THEN /\ pc' = "exec"
               /\ queue' = r.actions
               /\ success' = 0
               /\ log' = <<>>
          ELSE /\ pc' = "ok"
               /\ UNCHANGED <<queue, success, log>>
  /\ UNCHANGED <<docs, labels, issues, comments, commit>>

\* GhLabel::list, list_issues_in_milestone or fetch_issue returns Err
FetchFail ==
  /\ pc = "loop"
  /\ pc' = "failed"
  /\ UNCHANGED <<docs, labels, issues, comments, commit, queue, success, log>>

\* lines 146-166, action.execute returns Ok
ExecOk ==
  /\ pc = "exec"
  /\ queue # <<>>
  /\ LET a == Head(queue)
         st == execute(a, State, Timeframe)
     IN /\ docs' = st.docs
        /\ labels' = st.labels
        /\ issues' = st.issues
        /\ comments' = st.comments
        /\ log' = Append(log, [act |-> a, ok |-> TRUE,
                               created |-> IF a.kind = "CreateIssue"
                                           THEN NextNumber(issues) ELSE 0])
  /\ success' = success + 1
  /\ queue' = Tail(queue)
  /\ UNCHANGED <<commit, pc>>

ExecErr_halts ==
  /\ pc = "exec"
  /\ queue # <<>>
  /\ log' = Append(log, [act |-> Head(queue), ok |-> FALSE, created |-> 0])
  /\ queue' = <<>>
  /\ UNCHANGED <<docs, labels, issues, comments, commit, pc, success>>

\* lines 146-166, action.execute returns Err
ExecErr ==
  /\ pc = "exec"
  /\ queue # <<>>
  /\ log' = Append(log, [act |-> Head(queue), ok |-> FALSE, created |-> 0])
  /\ queue' = Tail(queue)
  /\ UNCHANGED <<docs, labels, issues, comments, commit, pc, success>>

EndBatch_no_escalation ==
  /\ pc = "exec"
  /\ queue = <<>>
  /\ pc' = "loop"
  /\ UNCHANGED <<docs, labels, issues, comments, commit, queue, success, log>>

\* lines 167-170: the end of the batch
EndBatch ==
  /\ pc = "exec"
  /\ queue = <<>>
  /\ pc' = IF success = 0 THEN "failed" ELSE "loop"
  /\ UNCHANGED <<docs, labels, issues, comments, commit, queue, success, log>>

(***************************************************************************)
(* Initial states, before the first pass.  InitWide: a corpus of up to two *)
(* accepted documents against a tracker holding up to two issues.  Init:   *)
(* one accepted document against a tracker holding at most one issue.      *)
(***************************************************************************)
Doc(d, title, tracking, accepted) ==
  [id |-> d, title |-> title, owners |-> DocOwners, tracking |-> tracking,
   accepted |-> accepted]

InitIssue(titles, assignees, milestones, bodies, lockeds) ==
  [title : titles, assignees : assignees, milestone : milestones,
   body : bodies, locked : lockeds]

ManualBody == <<"manual text">>
LinkedBody == <<"manual text", goal_document_link(Timeframe, "d1")>>

LabelsWrongColor ==
  {[name |-> "C-tracking-issue", color |-> "ffffff"],
   [name |-> "Flagship Goal", color |-> "5319E7"],
   [name |-> "T-compiler", color |-> TEAM_LABEL_COLOR]}
LabelsTeamMissing ==
  {[name |-> "C-tracking-issue", color |-> "f5f1fd"],
   [name |-> "Flagship Goal", color |-> "5319E7"]}

WideDocs ==
  {("d1" :> Doc("d1", t, k, TRUE)) @@ ("d2" :> d2) :
     t \in Titles, k \in {NoTracking, 1, 3},
     d2 \in {Doc("d2", "Goal Y", NoTracking, FALSE),
             Doc("d2", "Goal Y", NoTracking, TRUE),
             Doc("d2", "Goal Y", 1, TRUE)}}

WideIssue1 ==
  InitIssue(Titles, {{"bob", "carol"}, {"alice", "bob"}},
            {Timeframe, "2024h2"}, {ManualBody, LinkedBody}, BOOLEAN)
WideIssue2 ==
  InitIssue(Titles, {{"bob", "carol"}}, {Timeframe}, {ManualBody}, {TRUE})

WideIssues ==
  {<<>>} \cup {(1 :> i1) : i1 \in WideIssue1}
  \cup {(1 :> i1) @@ (2 :> i2) : i1 \in WideIssue1, i2 \in WideIssue2}

InitCommon ==
  /\ comments = [n \in DOMAIN issues |-> [lock |-> 0, cont |-> 0]]
  /\ commit \in BOOLEAN
  /\ pc = "loop"
  /\ queue = <<>>
  /\ success = 0
  /\ log = <<>>

InitWide ==
  /\ docs \in WideDocs
  /\ labels \in {LabelsWrongColor, LabelsTeamMissing}
  /\ issues \in WideIssues
  /\ InitCommon

NarrowDocs ==
  {("d1" :> Doc("d1", "Goal X", k, TRUE))
   @@ ("d2" :> Doc("d2", "Goal Y", NoTracking, FALSE)) : k \in {NoTracking, 1}}

NarrowIssues ==
  {<<>>} \cup
  {(1 :> i1) : i1 \in InitIssue({"Goal X"}, {{"bob", "carol"}},
                                {Timeframe, "2024h2"}, {LinkedBody}, BOOLEAN)}

Init ==
  /\ docs \in NarrowDocs
  /\ labels \in {LabelsWrongColor, LabelsTeamMissing}
  /\ issues \in NarrowIssues
  /\ InitCommon

Next == Pass \/ FetchFail \/ ExecOk \/ ExecErr \/ EndBatch

\* every run of the program: actions and fetches may fail
Spec == Init /\ [][Next]_vars

NextSync == Pass \/ ExecOk \/ EndBatch

\* the runs in which every fetch and every executed action succeeds
SpecSync == InitWide /\ [][NextSync]_vars

\* The loop of lines 124-180 keeps running: a pass under way completes, the
\* action at the head of the batch is executed, a batch run through is
\* closed.  In a behaviour of Spec a step that leaves pc = "loop" is a step of
\* Pass or FetchFail, one that shortens the queue a step of ExecOk or ExecErr,
\* one that leaves pc = "exec" a step of EndBatch: the three conditions are
\* weak fairness of those steps, stated on what each changes.
PassCompletes == pc = "loop" /\ pc' \in {"ok", "failed", "exec"}

HeadExecuted == pc = "exec" /\ queue # <<>> /\ queue' = Tail(queue)

BatchClosed == pc = "exec" /\ queue = <<>> /\ pc' \in {"loop", "failed"}

Running ==
  /\ WF_pc(PassCompletes)
  /\ WF_queue(HeadExecuted)
  /\ WF_pc(BatchClosed)

\* every action succeeding, the loop kept running
SpecSyncFair == SpecSync /\ Running

\* every run of the program, the loop kept running
SpecFair == Spec /\ Running

(***************************************************************************)
(* Vocabulary of the properties                                            *)
(***************************************************************************)
Accepted == {d \in Docs : docs[d].accepted}
CurListings == Listings(MilestoneIssues(issues, Timeframe))
Desired(d) == issue(Timeframe, docs[d])
Match(l, d) == existing_issue(issues, l, Desired(d))
Acts(l, d) == DocActions(docs, issues, l, d)
\* the action sets the diff of the current state can produce
DiffSets == {Range(r.actions) :
               r \in {x \in {pass_actions(State, l) : l \in CurListings} : x.ok}}
Kinds(A, k) == {a \in A : a.kind = k}
LogOk(a) == \E i \in DOMAIN log : log[i].act = a /\ log[i].ok
\* a batch has just been executed in full and the loop is about to diff again
AfterBatch == pc = "loop" /\ log # <<>>

(***************************************************************************)
(* C3.  Label diff is by name only: a desired label whose name equals the  *)
(* name of a label existing in the tracker, whatever that label's color,   *)
(* gets no CreateLabel, neither from initialize_labels on the current      *)
(* labels nor in the batch a pass has just queued.                         *)
(***************************************************************************)
ExistingNames == {e.name : e \in labels}

Coupled(A) ==
  \A n \in DOMAIN issues :
     /\ (\E a \in Kinds(A, "ChangeMilestone") : a.number = n)
          <=> Comment(n, ContinuationBody(Timeframe)) \in A
     /\ LockIssue(n) \in A <=> Comment(n, LockBody) \in A

C4_Coupling == pc = "loop" => \A A \in DiffSets : Coupled(A)

C4_Witness ==
  /\ pc = "loop"
  /\ \E A \in DiffSets : \E n \in DOMAIN issues :
       /\ ChangeMilestone(n, Timeframe) \in A
       /\ Comment(n, ContinuationBody(Timeframe)) \in A
       /\ LockIssue(n) \in A
       /\ Comment(n, LockBody) \in A

(***************************************************************************)
(* C6.  Matching priority: a document whose declared tracking id is the    *)
(* number of an issue of the fetched milestone list is matched to that     *)
(* issue, also when another listed issue carries the document's title, and *)
(* every action emitted for the document targets the declared number.      *)
(***************************************************************************)
C6_MatchingPriority ==
  pc = "loop" =>
    \A l \in CurListings : \A d \in Accepted :
       docs[d].tracking \in Range(l) =>
         /\ Match(l, d) = docs[d].tracking
         /\ \A a \in Acts(l, d) :
              a.kind # "CreateIssue" /\ a.number = docs[d].tracking

\* the declared issue has another title, a different listed issue has the title
C6_Witness ==
  /\ pc = "loop"
  /\ \E l \in CurListings : \E d \in Accepted :
       /\ docs[d].tracking \in Range(l)
       /\ issues[docs[d].tracking].title # docs[d].title
       /\ \E m \in Range(l) : m # docs[d].tracking /\ issues[m].title = docs[d].title
       /\ ChangeTitle(docs[d].tracking, docs[d].title) \in Acts(l, d)

(***************************************************************************)
(* C7.  Assignee diff: for a document matched to an existing issue, no     *)
(* SyncAssignees is emitted when the existing assignees equal the desired  *)
(* ones; otherwise exactly one is emitted, for the matched number, whose   *)
(* remove-set is taken from the existing assignees, whose add-set is       *)
(* disjoint from them, not both empty, and which applied to the existing   *)
(* set gives the desired set.                                              *)
(***************************************************************************)
C7_AssigneeDiff ==
  pc = "loop" =>
    \A l \in CurListings : \A d \in Accepted :
       Match(l, d) \in DOMAIN issues =>
         LET ex == issues[Match(l, d)].assignees
             S == Kinds(Acts(l, d), "SyncAssignees")
         IN IF ex = Desired(d).assignees
            THEN S = {}
            ELSE /\ Cardinality(S) = 1
                 /\ \A a \in S :
                      /\ a.number = Match(l, d)
                      /\ a.remove_owners \subseteq ex
                      /\ a.add_owners \cap ex = {}
                      /\ a.remove_owners \cap a.add_owners = {}
                      /\ a.remove_owners \cup a.add_owners # {}
                      /\ (ex \ a.remove_owners) \cup a.add_owners
                           = Desired(d).assignees

\* existing = {alice, bob}, desired = {bob, carol}
C7_Witness ==
  /\ pc = "loop"
  /\ \E l \in CurListings : \E d \in Accepted :
       /\ Match(l, d) \in DOMAIN issues
       /\ issues[Match(l, d)].assignees = {"alice", "bob"}
       /\ Desired(d).assignees = {"bob", "carol"}
       /\ SyncAssignees(Match(l, d), {"alice"}, {"carol"}) \in Acts(l, d)

(***************************************************************************)
(* C8.  Body preservation: the new body of every UpdateIssueBody the diff  *)
(* emits starts with the freshly generated desired body and contains the   *)
(* matched issue's previous body verbatim after it.                        *)
(***************************************************************************)
C8_BodyPreservation ==
  pc = "loop" =>
    \A l \in CurListings : \A d \in Accepted :
       \A a \in Kinds(Acts(l, d), "UpdateIssueBody") :
          LET old == issues[a.number].body
              new == Desired(d).body
          IN /\ a.number = Match(l, d)
             /\ Len(a.body) >= Len(new) + Len(old)
             /\ SubSeq(a.body, 1, Len(new)) = new
             /\ Contains(SubSeq(a.body, Len(new) + 1, Len(a.body)), old)

C8_Witness ==
  /\ pc = "loop"
  /\ \E l \in CurListings : \E d \in Accepted :
       \E a \in Kinds(Acts(l, d), "UpdateIssueBody") :
          /\ issues[a.number].body # <<>>
          /\ Contains(a.body, issues[a.number].body)

(***************************************************************************)
(* C9.  Determinism: the ordered action list of initialize_issues depends  *)
(* neither on the order in which the documents are supplied nor on the     *)
(* order in which the milestone's issues are listed, as long as each title *)
(* has the same first match in the two listings.                           *)
(***************************************************************************)
Permuted(q) ==
  {[i \in DOMAIN q |-> q[p[i]]] :
     p \in {f \in [DOMAIN q -> DOMAIN q] : \A i, j \in DOMAIN q : i # j => f[i] # f[j]}}

SameFirstMatch(l1, l2) ==
  \A t \in Titles : FindByTitle(issues, l1, t) = FindByTitle(issues, l2, t)

C9_OrderIndependence ==
  pc = "loop" =>
    \A l1 \in CurListings : \A l2 \in CurListings :
       SameFirstMatch(l1, l2) =>
         \A gd \in Permuted(GoalDocuments(docs)) :
            initialize_issues(issues, l2, Timeframe, gd)
              = initialize_issues(issues, l1, Timeframe, GoalDocuments(docs))

\* two documents that both yield actions, and two issues listed in two orders
C9_Witness ==
  /\ pc = "loop"
  /\ Accepted = Docs
  /\ Cardinality(CurListings) >= 2
  /\ \E l \in CurListings :
       /\ \A d \in Docs : Acts(l, d) # {}
       /\ Acts(l, "d1") # Acts(l, "d2")
       /\ initialize_issues(issues, l, Timeframe, GoalDocuments(docs)).ok

(***************************************************************************)
(* C1.  Convergence.  In SpecSync every action of a batch is applied       *)
(* successfully, so in a state AfterBatch the log is the action set of the *)
(* previous diff, all of it applied, and DiffSets are the action sets of   *)
(* the diff run again.                                                     *)
(***************************************************************************)
\* as claimed: the second action set is empty or strictly smaller
C1_AsClaimed ==
  AfterBatch => \A A \in DiffSets : A = {} \/ Cardinality(A) < Len(log)

NoCreateInLog == \A i \in DOMAIN log : log[i].act.kind # "CreateIssue"
DistinctMatches ==
  \A l \in CurListings : \A d1, d2 \in Accepted :
     d1 # d2 => Match(l, d1) # Match(l, d2)

\* C1 as amended: when the first action set held no CreateIssue and no two
\* documents are matched to the same issue, the second action set is empty
C1_Convergence ==
  (AfterBatch /\ NoCreateInLog /\ DistinctMatches) =>
     /\ DiffSets # {}
     /\ \A A \in DiffSets : A = {}

C1_Witness ==
  /\ AfterBatch /\ NoCreateInLog /\ DistinctMatches
  /\ Accepted = Docs
  /\ Len(log) >= 6
  /\ DiffSets = {{}}

(***************************************************************************)
(* C2.  Two-pass creation.                                                 *)
(***************************************************************************)
TitleUnshared(d) == \A e \in Accepted \ {d} : docs[e].title # docs[d].title

\* first pass: a document without declared id and without an issue of its
\* title in the milestone yields exactly one action, its CreateIssue
FirstPassCreates ==
  pc = "loop" =>
    \A l \in CurListings : \A d \in Accepted :
       (/\ docs[d].tracking = NoTracking
        /\ \A n \in Range(l) : issues[n].title # docs[d].title)
       => Acts(l, d) = {CreateIssue(Desired(d))}

\* as claimed: after the creation the second diff yields the link alone
C2_AsClaimed ==
  /\ FirstPassCreates
  /\ AfterBatch =>
       \A i \in DOMAIN log :
          (log[i].act.kind = "CreateIssue" /\ Len(log) = 1) =>
             \A l \in CurListings :
                Acts(l, log[i].act.issue.goal_document)
                  = {LinkToTrackingIssue(log[i].act.issue.goal_document,
                                         log[i].created)}

\* C2 as amended: after the creation of issue n for D, whose title no other
\* document has, the second diff yields for D the link, LockIssue{n} and the
\* lock-notice Comment{n}, and nothing else
C2_TwoPassCreation ==
  /\ FirstPassCreates
  /\ AfterBatch =>
       \A i \in DOMAIN log :
          (log[i].act.kind = "CreateIssue"
           /\ TitleUnshared(log[i].act.issue.goal_document)) =>
             \A l \in CurListings :
                Acts(l, log[i].act.issue.goal_document)
                  = {LinkToTrackingIssue(log[i].act.issue.goal_document,
                                         log[i].created),
                     LockIssue(log[i].created),
                     Comment(log[i].created, LockBody)}

\* the issue of a document was created in a batch with other actions
C2_Witness ==
  /\ AfterBatch
  /\ Len(log) >= 2
  /\ \E i \in DOMAIN log :
       /\ log[i].act.kind = "CreateIssue"
       /\ log[i].created \in DOMAIN issues
       /\ TitleUnshared(log[i].act.issue.goal_document)
       /\ \E l \in CurListings :
            LockIssue(log[i].created) \in Acts(l, log[i].act.issue.goal_document)

(***************************************************************************)
(* C5.  A coupled pair is never partially applied: once a batch has been   *)
(* executed, for every issue either both members of a coupled pair took    *)
(* effect or neither did.                                                  *)
(***************************************************************************)
BatchOver == pc \in {"loop", "failed"} /\ log # <<>>

C5_PairsAtomic ==
  BatchOver =>
    \A n \in DOMAIN issues :
       /\ LogOk(ChangeMilestone(n, Timeframe))
            <=> LogOk(Comment(n, ContinuationBody(Timeframe)))
       /\ LogOk(LockIssue(n)) <=> LogOk(Comment(n, LockBody))

(***************************************************************************)
(* C10.  Whole-batch failure escalation: a batch is never empty; the run   *)
(* leaves a batch only when every action of it has been attempted, to a    *)
(* fatal error when none succeeded and to the next pass otherwise; after   *)
(* the fatal error (or a success) the run takes no further step.           *)
(***************************************************************************)
C10_Escalation ==
  [][ /\ pc \in {"ok", "failed"} => FALSE
      /\ pc' = "exec" => Len(queue') + Len(log') > 0
      /\ (pc = "exec" /\ pc' # "exec") =>
           /\ queue = <<>> /\ log # <<>>
           /\ IF \A i \in DOMAIN log : ~log[i].ok
              THEN pc' = "failed"
              ELSE pc' = "loop" ]_vars

\* a batch of at least two actions, all failed, ended the run
C10_Witness ==
  /\ pc = "failed"
  /\ Len(log) >= 2
  /\ queue = <<>>
  /\ \A i \in DOMAIN log : ~log[i].ok

(***************************************************************************)
(* C11.  Per-action failure isolation: the actions of a batch, those       *)
(* already attempted (the log) followed by those still queued, stay the    *)
(* same sequence from the pass to the end of the batch and hold no action  *)
(* twice; each step of the batch attempts the first queued action, after a *)
(* failure as after a success; the batch ends only with nothing queued.    *)
(***************************************************************************)
LogActs(lg) == [i \in DOMAIN lg |-> lg[i].act]
NoRepeat(q) == \A i, j \in DOMAIN q : i # j => q[i] # q[j]

C11_FailureIsolation ==
  [][ /\ pc' = "exec" => NoRepeat(LogActs(log') \o queue')
      /\ (pc = "exec" /\ pc' = "exec") =>
           /\ queue # <<>>
           /\ LogActs(log') \o queue' = LogActs(log) \o queue
           /\ Len(log') = Len(log) + 1
      /\ (pc = "exec" /\ pc' # "exec") => queue = <<>> ]_vars

\* a batch was executed to its end although its first action failed
C11_Witness ==
  /\ pc = "exec"
  /\ queue = <<>>
  /\ Len(log) >= 3
  /\ ~log[1].ok
  /\ \E i \in DOMAIN log : log[i].ok

(***************************************************************************)
(* C12.  Dry-run.                                                          *)
(***************************************************************************)
\* as claimed: a run without --commit that has ended has ended in success
C12_AsClaimed == (~commit /\ pc # "loop") => pc = "ok"

\* C12 as amended: without --commit the run ends with its first pass, in
\* success or, when a fetch of the tracker state failed, in failure; it
\* executes no action and leaves tracker and documents as they were
C12_DryRun ==
  [][ ~commit =>
        /\ pc = "loop"
        /\ pc' \in {"ok", "failed"}
        /\ UNCHANGED <<docs, labels, issues, comments, queue, log>>
        /\ (pc' = "failed" \/ DiffSets # {}) ]_vars

\* a dry run ended in success with actions pending
C12_Witness ==
  /\ ~commit
  /\ pc = "ok"
  /\ log = <<>>
  /\ \E A \in DiffSets : Cardinality(A) >= 3

(***************************************************************************)
(* C13.  Exit status of a run with --commit: it ends in success exactly    *)
(* from a pass whose diff is empty, and in failure only from a pass whose  *)
(* fetch failed or from a batch in which no action succeeded.              *)
(***************************************************************************)
C13_ExitStatus ==
  [][ commit =>
        /\ pc' = "ok" => (pc = "loop" /\ {} \in DiffSets)
        /\ (pc = "loop" /\ pc' # "failed" /\ DiffSets = {{}}) => pc' = "ok"
        /\ (pc = "loop" /\ pc' = "exec") => \E A \in DiffSets : A # {}
        /\ pc' = "failed" =>
             \/ pc = "loop"
             \/ /\ pc = "exec" /\ queue = <<>> /\ log # <<>>
                /\ \A i \in DOMAIN log : ~log[i].ok ]_vars

\* success after at least one batch
C13_Witness ==
  /\ commit
  /\ pc = "ok"
  /\ log # <<>>
  /\ DiffSets = {{}}

(***************************************************************************)
(* C14.  Termination when every executed action succeeds and nothing else  *)
(* edits tracker or documents (SpecSyncFair).  A run that a failed fetch   *)
(* ends is not held against the statement.                                 *)
(***************************************************************************)
\* as claimed: the loop reaches an empty action set
C14_AsClaimed == commit => <>(pc = "ok" \/ pc = "failed")

\* two documents matched to one existing issue
SharedIssue ==
  \E l \in CurListings : \E d1, d2 \in Accepted :
     d1 # d2 /\ Match(l, d1) = Match(l, d2) /\ Match(l, d1) \in DOMAIN issues

\* C14 as amended: the loop reaches an empty action set unless a pass finds
\* two documents matched to the same issue
C14_Termination ==
  commit => <>(pc = "ok" \/ pc = "failed" \/ (pc = "loop" /\ SharedIssue))

\* the loop ended on an empty action set after creating and linking issues
C14_Witness ==
  /\ commit
  /\ pc = "ok"
  /\ log # <<>>
  /\ Cardinality(DOMAIN issues) >= 3
  /\ \A d \in Docs : docs[d].accepted /\ docs[d].tracking # NoTracking
  /\ ~SharedIssue

(***************************************************************************)
(* C15.  Create-only on no match (SpecSync).                               *)
(***************************************************************************)
\* the actions of a pass that name document d
NamingDoc(q, d) ==
  {a \in Range(q) : \/ a.kind = "CreateIssue" /\ a.issue.goal_document = d
                    \/ a.kind = "LinkToTrackingIssue" /\ a.goal_document = d}

\* C15: a document whose desired issue matches no existing issue gets exactly
\* one action in the pass, a CreateIssue carrying the title, body, labels and
\* assignees of the desired issue
C15_CreateOnly ==
  \A l \in CurListings : \A d \in Accepted :
     Match(l, d) = NoMatch =>
       /\ Acts(l, d) = {CreateIssue(Desired(d))}
       /\ NamingDoc(pass_actions(State, l).actions, d) = {CreateIssue(Desired(d))}
       /\ Desired(d).title = docs[d].title
       /\ Desired(d).assignees = {get_person_data(u) : u \in docs[d].owners} \ {""}
       /\ Desired(d).body = issue_text(Timeframe, docs[d])

\* a pass has just emitted a CreateIssue for an unmatched document next to
\* actions on the issue of a matched one
C15_Witness ==
  /\ pc = "exec"
  /\ log = <<>>
  /\ \E d \in Accepted :
       /\ \A l \in CurListings : Match(l, d) = NoMatch
       /\ CreateIssue(Desired(d)) \in Range(queue)
       /\ Desired(d).assignees # {}
  /\ \E i \in DOMAIN queue : queue[i].kind \in {"SyncAssignees", "LockIssue", "Comment"}

(***************************************************************************)
(* C16.  Idempotence of the actions (Spec).                                *)
(***************************************************************************)
Twice(a, st) == execute(a, execute(a, st, Timeframe), Timeframe)

\* C16 as claimed: executing the action about to be executed twice in
\* succession leaves tracker and documents as executing it once does
C16_Idempotent ==
  (pc = "exec" /\ queue # <<>>) =>
     Twice(Head(queue), State) = execute(Head(queue), State, Timeframe)

(***************************************************************************)
(* C17.  No infinite unproductive looping (SpecFair: every run, actions    *)
(* failing or succeeding at each attempt, nothing else editing the         *)
(* tracker).                                                               *)
(***************************************************************************)
\* C17 as claimed: every commit-mode run eventually returns, Ok or Err
C17_Terminates == commit => <>(pc \in {"ok", "failed"})

(***************************************************************************)
(* C18.  Execution order within a commit batch (SpecSync).                 *)
(***************************************************************************)
VariantOrder ==
  <<"CreateLabel", "CreateIssue", "ChangeTitle", "ChangeMilestone", "Comment",
    "UpdateIssueBody", "SyncAssignees", "LockIssue", "LinkToTrackingIssue">>

Position(kind) == CHOOSE i \in DOMAIN VariantOrder : VariantOrder[i] = kind

Numbered ==
  {"ChangeTitle", "ChangeMilestone", "Comment", "UpdateIssueBody",
   "SyncAssignees", "LockIssue"}

\* q is in the order of the action set: variant first, then fields
InSetOrder(q) ==
  \A i, j \in DOMAIN q : i < j =>
     /\ Position(q[i].kind) <= Position(q[j].kind)
     /\ q[i] # q[j]
     /\ q[i].kind = q[j].kind =>
          /\ SeqLess(ActionKey(q[i]), ActionKey(q[j]))
          /\ q[i].kind \in Numbered => q[i].number <= q[j].number

\* the consequences named: labels before issues, a coupled Comment after its
\* ChangeMilestone and before its LockIssue
LabelsThenIssues(q) ==
  \A i, j \in DOMAIN q :
     (q[i].kind = "CreateLabel" /\ q[j].kind = "CreateIssue") => i < j

CoupledInOrder(q) ==
  \A i, j \in DOMAIN q :
     (q[i].kind = "Comment" /\ q[j].number = q[i].number) =>
        /\ q[j].kind = "ChangeMilestone" => j < i
        /\ q[j].kind = "LockIssue" => i < j

\* C18: the actions of a batch are attempted one at a time, in the order of
\* the set
C18_ExecutionOrder ==
  [][ /\ pc' = "exec" =>
           /\ InSetOrder(LogActs(log') \o queue')
           /\ LabelsThenIssues(LogActs(log') \o queue')
           /\ CoupledInOrder(LogActs(log') \o queue')
      /\ (pc = "exec" /\ pc' = "exec") =>
           /\ queue # <<>>
           /\ LogActs(log') = Append(LogActs(log), Head(queue))
           /\ queue' = Tail(queue) ]_vars

\* a batch run through with a label and an issue created and a milestone
\* change and a lock with their comments on one issue
C18_Witness ==
  /\ pc = "exec"
  /\ queue = <<>>
  /\ \E i, j \in DOMAIN log :
       log[i].act.kind = "CreateLabel" /\ log[j].act.kind = "CreateIssue"
  /\ \E n \in DOMAIN issues :
       /\ \E i \in DOMAIN log : log[i].act = ChangeMilestone(n, Timeframe)
       /\ \E i \in DOMAIN log : log[i].act = Comment(n, ContinuationBody(Timeframe))
       /\ \E i \in DOMAIN log : log[i].act = Comment(n, LockBody)
       /\ \E i \in DOMAIN log : log[i].act = LockIssue(n)

(***************************************************************************)
(* C19.  A failed fetch aborts the pass before execution (Spec).           *)
(***************************************************************************)
\* a document declares an issue the tracker does not have: its number is in
\* no listing and the point-fetch fails
PointFetchFails ==
  \E d \in Accepted :
     docs[d].tracking # NoTracking /\ docs[d].tracking \notin DOMAIN issues

\* C19: a pass that fails executes nothing and hands nothing to the executor,
\* and a pass whose point-fetch fails does fail, with or without --commit
C19_FetchFailureAborts ==
  [][ /\ (pc = "loop" /\ pc' = "failed") =>
           UNCHANGED <<docs, labels, issues, comments, queue, success, log>>
      /\ (pc = "loop" /\ PointFetchFails) => pc' = "failed"
      /\ pc' = "exec" => (pc = "exec" \/ ~PointFetchFails) ]_vars

\* a run ended by a failed point-fetch in a pass that had labels to create
C19_Witness ==
  /\ pc = "failed"
  /\ log = <<>>
  /\ queue = <<>>
  /\ PointFetchFails
  /\ initialize_labels(labels, teams_with_asks(GoalDocuments(docs))) # {}

(***************************************************************************)
(* C20.  CreateIssue only for documents without a declared tracking id     *)
(* (SpecSync).                                                             *)
(***************************************************************************)
\* the CreateIssue actions of a pass for document d
CreatesFor(q, d) ==
  {a \in Range(q) : a.kind = "CreateIssue" /\ a.issue.goal_document = d}

\* C20: a document that declares a tracking id gets no CreateIssue; it is
\* matched to the declared issue whether or not the milestone lists it, and
\* the pass is an error when the tracker has no issue of that number
C20_DeclaredNeverCreated ==
  \A l \in CurListings : \A d \in Accepted :
     docs[d].tracking # NoTracking =>
       /\ Kinds(Acts(l, d), "CreateIssue") = {}
       /\ CreatesFor(pass_actions(State, l).actions, d) = {}
       /\ docs[d].tracking \in DOMAIN issues => Match(l, d) = docs[d].tracking
       /\ docs[d].tracking \notin DOMAIN issues =>
            /\ Match(l, d) = FetchError
            /\ ~pass_actions(State, l).ok

\* a pass matched a document to its declared issue by point-fetch, the issue
\* being in another milestone and under another title
C20_Witness ==
  /\ pc = "exec"
  /\ log = <<>>
  /\ \E d \in Accepted :
       /\ docs[d].tracking \in DOMAIN issues \ MilestoneIssues(issues, Timeframe)
       /\ issues[docs[d].tracking].title # docs[d].title
       /\ ChangeMilestone(docs[d].tracking, Timeframe) \in Range(queue)
       /\ CreatesFor(queue, d) = {}

(***************************************************************************)
(* C21.  No duplicate tracking issues (SpecSync).                          *)
(***************************************************************************)
DistinctTitles ==
  \A d, e \in Accepted : d # e => docs[d].title # docs[e].title

\* a CreateIssue for document d succeeded in the current batch
CreatedFor(d) ==
  \E i \in DOMAIN log :
     /\ log[i].ok
     /\ log[i].act.kind = "CreateIssue"
     /\ log[i].act.issue.goal_document = d

\* a CreateIssue for document d is pending in the batch, or the pass about
\* to be made emits one
EmitsCreate(d) ==
  \/ pc = "exec" /\ CreatesFor(queue, d) # {}
  \/ pc = "loop" /\ \E l \in CurListings :
                       CreatesFor(pass_actions(State, l).actions, d) # {}

\* C21: with pairwise distinct titles, once a CreateIssue for a document has
\* succeeded no CreateIssue for that document is emitted again, in that batch
\* or in any later pass
C21_NoDuplicateIssue ==
  \A d \in Docs :
     []((commit /\ DistinctTitles /\ CreatedFor(d)) => []~EmitsCreate(d))

\* the run has ended with the issues of two documents created by it, each
\* document linked to its own
C21_Witness ==
  /\ commit
  /\ pc = "ok"
  /\ DistinctTitles
  /\ Accepted = Docs
  /\ Cardinality(DOMAIN issues) >= 3
  /\ \A d \in Docs :
       /\ docs[d].tracking \in DOMAIN issues
       /\ issues[docs[d].tracking].title = docs[d].title
       /\ issues[docs[d].tracking].body = issue_text(Timeframe, docs[d])
  /\ docs["d1"].tracking # docs["d2"].tracking

(***************************************************************************)
(* C22.  The body update is self-stabilising (SpecSync).  The bodies the   *)
(* runs start from carry no <details> block: an issue whose body has one   *)
(* has had an UpdateIssueBody applied.                                     *)
(***************************************************************************)
Marker(d) == <<goal_document_link(Timeframe, d)>>

UpdatesFor(A, n) == {a \in A : a.kind = "UpdateIssueBody" /\ a.number = n}

Archives(body) == Cardinality({i \in DOMAIN body : body[i] = "<details>"})

\* UpdateIssueBody is emitted for document d matched to issue n exactly when
\* the body of n lacks the marker of d
EmittedIffMarkerLacks ==
  \A l \in CurListings : \A d \in Accepted :
     Match(l, d) \in DOMAIN issues =>
       (UpdatesFor(Acts(l, d), Match(l, d)) # {}
          <=> ~Contains(issues[Match(l, d)].body, Marker(d)))

\* for issue n as pass l sees it: once a body update has been applied, the
\* body carries the marker of the document matched to n, the pass emits no
\* UpdateIssueBody for n, and the prior body is archived once
Stabilised(n, l) ==
  Archives(issues[n].body) >= 1 =>
    /\ \A d \in Accepted : Match(l, d) = n => Contains(issues[n].body, Marker(d))
    /\ UpdatesFor(Range(pass_actions(State, l).actions), n) = {}
    /\ Archives(issues[n].body) = 1

\* C22 as claimed
C22_AsClaimed ==
  /\ EmittedIffMarkerLacks
  /\ pc = "loop" =>
       \A l \in CurListings : \A n \in DOMAIN issues : Stabilised(n, l)

\* C22 as amended: the same for an issue no two documents are matched to
C22_SelfStabilising ==
  /\ EmittedIffMarkerLacks
  /\ pc = "loop" =>
       \A l \in CurListings : \A n \in DOMAIN issues :
          (\A d, e \in Accepted : (Match(l, d) = n /\ Match(l, e) = n) => d = e)
             => Stabilised(n, l)

\* a batch has applied a body update to an issue matched by one document,
\* and the next pass is about to be made
C22_Witness ==
  /\ AfterBatch
  /\ \E n \in DOMAIN issues :
       /\ \E i \in DOMAIN log :
            log[i].ok /\ log[i].act.kind = "UpdateIssueBody" /\ log[i].act.number = n
       /\ Archives(issues[n].body) = 1
       /\ \A l \in CurListings :
            Cardinality({d \in Accepted : Match(l, d) = n}) = 1

====
